---- MODULE Spec2Model ----
(***************************************************************************)
(* A model of the data-quality API server (src/project/src/server/app.py). *)
(*                                                                         *)
(* One HTTP request is followed from its arrival to its response:          *)
(*   Spec           /api/datasets, /api/dashboard/health, /api/schema      *)
(*   SpecParse      /api/datasets/parse                                    *)
(*   SpecAggregate  the four dashboard queries as functions of the tables  *)
(*                                                                         *)
(* Text that the code takes apart character by character (query            *)
(* parameters, the stored header string) is a sequence of one-character    *)
(* strings; text that is only compared or measured (exception text) is a   *)
(* TLA+ string.  A nullable value is <<>> (NULL / None) or <<v>>.          *)
(***************************************************************************)
EXTENDS Integers, Sequences, FiniteSets, TLC

VARIABLES
    request,    \* the request: endpoint and query-string arguments
    db,         \* the tables the request reads
    pc,         \* position of the request handler
    conn,       \* the request's connection: "none", "open" or "closed"
    locals,     \* the handler's local variables
    tasks,      \* state of each future of the worker pool
    results,    \* results[query_name], as collected by the handler
    response    \* <<>> until composed, then <<[status, body]>>

vars == <<request, db, pc, conn, locals, tasks, results, response>>

\* ------------------------------------------------------------------ bounds

MaxRows == 2        \* rows of rule_output
MaxScore == 1       \* largest rule score
MaxAge == 3         \* oldest run, in days before today
MaxLinkLen == 6     \* characters of a stored header string

\* ---------------------------------------------------------------- nullable

Null == <<>>
Some(v) == <<v>>
IsNull(n) == n = <<>>
Val(n) == n[1]

\* ------------------------------------------------- SQL three-valued logic

SqlAnd(p, q) ==
    IF p = "F" \/ q = "F" THEN "F" ELSE IF p = "T" /\ q = "T" THEN "T" ELSE "U"

SqlOr(p, q) ==
    IF p = "T" \/ q = "T" THEN "T" ELSE IF p = "F" /\ q = "F" THEN "F" ELSE "U"

SqlIsNull(a) == IF IsNull(a) THEN "T" ELSE "F"

SqlEq(a, k) == IF IsNull(a) THEN "U" ELSE IF Val(a) = k THEN "T" ELSE "F"

SqlGt(a, k) == IF IsNull(a) THEN "U" ELSE IF Val(a) > k THEN "T" ELSE "F"

SqlLength(a) == IF IsNull(a) THEN Null ELSE Some(Len(Val(a)))

\* ------------------------------------------------------- the base relation

QueryNames == <<"globalHealth", "timeSeries", "dimensions", "businessUnits">>

QueryNameSet == {QueryNames[i] : i \in 1..Len(QueryNames)}

AllStatuses == {"PASSING", "BREAKING", "EXCEPTION"}

\* The CASE of the base relation f: the first WHEN whose condition is true.
ClassifyExceptionAtLeastOne(score, exception) ==
    IF SqlAnd(SqlEq(score, 0),
              SqlOr(SqlIsNull(exception), SqlEq(exception, ""))) = "T"
        THEN Some("PASSING")
    ELSE IF SqlGt(SqlLength(exception), 0) = "T" THEN Some("EXCEPTION")
    ELSE IF SqlGt(score, 0) = "T" THEN Some("BREAKING")
    ELSE Null

ClassifyBreakingFirst(score, exception) ==
    IF SqlAnd(SqlEq(score, 0),
              SqlOr(SqlIsNull(exception), SqlEq(exception, ""))) = "T"
        THEN Some("PASSING")
    ELSE IF SqlGt(score, 0) = "T" THEN Some("BREAKING")
    ELSE IF SqlGt(SqlLength(exception), 1) = "T" THEN Some("EXCEPTION")
    ELSE Null

Classify(score, exception) ==
    IF SqlAnd(SqlEq(score, 0),
              SqlOr(SqlIsNull(exception), SqlEq(exception, ""))) = "T"
        THEN Some("PASSING")
    ELSE IF SqlGt(SqlLength(exception), 1) = "T" THEN Some("EXCEPTION")
    ELSE IF SqlGt(score, 0) = "T" THEN Some("BREAKING")
    ELSE Null

\* A run's date is kept as its age: NOW()::date - run_id::date, in days.
\* run_id::date >= NOW()::date - INTERVAL 'days day' and
\* run_id::date <= NOW()::date + INTERVAL '1 day'.
InWindow(age, days) == age <= days /\ age >= -1

\* if count == 0: the "no data" answer.
NoDataNever(count) == count < 0

NoData(count) == count = 0

\* SELECT COUNT(*) FROM public.rule_output WHERE <window>
VerifyCount(d, days) ==
    Cardinality({a \in d.rule_output : InWindow(a.age, days)})

\* The rows a LEFT JOIN pairs with one left row: its matches, or one NULL row.
LeftJoin(matches) == IF matches = {} THEN {Null} ELSE {Some(m) : m \in matches}

\* dq_dimension and business_units are catalogs that the model keeps fixed.
DimName(dim_id) == IF dim_id = Some(1) THEN Some("COMPLETENESS") ELSE Null

BusinessUnitName(id) == IF id = 1 THEN Some("FINANCE") ELSE Null

Coalesce(a, dflt) == IF IsNull(a) THEN dflt ELSE Val(a)

\* The relation f.  Its rows are kept with the joined rows they come from
\* (src), so that a set holds as many rows as the SQL bag does.  dataset_scan
\* (b) and dataset_schema (j) are LEFT JOINed and contribute no column; they are
\* taken to match at most once.
Facts(d, days) ==
    { [ dataset |-> a.dataset,
        rule_nm |-> a.rule_nm,
        rule_point |-> a.score,
        pass_fail_exception |-> Classify(a.score, a.exception),
        dim_name |-> Coalesce(DimName(c.dim_id), "UNSPECIFIED"),
        businss_unit |-> IF IsNull(h) THEN Null ELSE BusinessUnitName(Val(h).id),
        run_age |-> a.age,
        src |-> <<a, c, g, h>> ] :
      <<a, c, g, h>> \in
        { t \in d.rule_output \X d.owl_rule \X d.owl_catalog
                 \X ({Null} \cup {Some(m) : m \in d.business_unit_to_dataset}) :
            /\ InWindow(t[1].age, days)
            /\ t[1].dataset = t[2].dataset /\ t[1].rule_nm = t[2].rule_nm
            /\ t[3] = t[1].dataset
            /\ t[4] \in LeftJoin({m \in d.business_unit_to_dataset :
                                        m.dataset = t[3]}) } }

SetMin(S) == CHOOSE m \in S : \A n \in S : m <= n

\* WHERE run_date >= (select max(run_date) from f) - INTERVAL 'days day'
FilteredFacts(d, days) ==
    LET F == Facts(d, days)
    IN  IF F = {} THEN {}
        ELSE {f \in F : f.run_age <= SetMin({g.run_age : g \in F}) + days}

\* health_counts: one row per status that occurs, the NULL status included.
HealthCounts(d, days) ==
    LET F == FilteredFacts(d, days)
    IN  { [ pass_fail_exception |-> s,
            cnt |-> Cardinality({f \in F : f.pass_fail_exception = s}) ] :
          s \in {f.pass_fail_exception : f \in F} }

RECURSIVE SumCnt(_)
SumCnt(rows) ==
    IF rows = {} THEN 0
    ELSE LET r == CHOOSE r \in rows : TRUE IN r.cnt + SumCnt(rows \ {r})

\* COALESCE(CAST(h.cnt AS DECIMAL) / NULLIF((SELECT SUM(cnt) ...), 0), 0): the
\* quotient is kept exact, as numerator and denominator.
Ratio(h, total) ==
    IF IsNull(h) \/ total = 0 THEN [num |-> 0, den |-> 1]
    ELSE [num |-> Val(h).cnt, den |-> total]

GlobalHealth(d, days) ==
    LET H == HealthCounts(d, days)
        total == SumCnt(H)
    IN  { [ pass_fail_exception |-> s,
            cnt |-> IF IsNull(h) THEN 0 ELSE Val(h).cnt,
            ratio |-> Ratio(h, total) ] :
          <<s, h>> \in
            { t \in AllStatuses \X ({Null} \cup {Some(r) : r \in H}) :
                t[2] \in LeftJoin({r \in H : r.pass_fail_exception = Some(t[1])}) } }

TimeSeries(d, days) ==
    LET F == FilteredFacts(d, days)
    IN  { [ pass_fail_exception |-> k[1],
            cnt |-> Cardinality({f \in F : f.pass_fail_exception = k[1]
                                           /\ f.run_age = k[2]}),
            run_id |-> k[2] ] :
          k \in {<<f.pass_fail_exception, f.run_age>> : f \in F} }

Dimensions(d, days) ==
    LET F == FilteredFacts(d, days)
    IN  { [ dimension |-> k[1],
            pass_fail_exception |-> k[2],
            cnt |-> Cardinality({f \in F : f.dim_name = k[1]
                                           /\ f.pass_fail_exception = k[2]}) ] :
          k \in {<<f.dim_name, f.pass_fail_exception>> : f \in F} }

BusinessUnits(d, days) ==
    LET F == FilteredFacts(d, days)
    IN  { [ biz_unit |-> Coalesce(k[1], "UNSPECIFIED"),
            pass_fail_exception |-> k[2],
            cnt |-> Cardinality({f \in F : f.businss_unit = k[1]
                                           /\ f.pass_fail_exception = k[2]}) ] :
          k \in {<<f.businss_unit, f.pass_fail_exception>> : f \in F} }

\* pd.read_sql(query, conn) for the query of that name.
Query(q, d, days) ==
    CASE q = "globalHealth" -> GlobalHealth(d, days)
      [] q = "timeSeries" -> TimeSeries(d, days)
      [] q = "dimensions" -> Dimensions(d, days)
      [] q = "businessUnits" -> BusinessUnits(d, days)

\* ------------------------------------------------------ query parameters

IsSpace(c) == c = " "

RECURSIVE LStrip(_)
LStrip(s) == IF s # <<>> /\ IsSpace(Head(s)) THEN LStrip(Tail(s)) ELSE s

RECURSIVE RStrip(_)
RStrip(s) ==
    IF s # <<>> /\ IsSpace(s[Len(s)]) THEN RStrip(SubSeq(s, 1, Len(s) - 1)) ELSE s

\* str.strip()
Strip(s) == RStrip(LStrip(s))

DigitChars == <<"0", "1", "2", "3", "4", "5", "6", "7", "8", "9">>

IsDigit(c) == \E i \in 1..10 : DigitChars[i] = c

DigitOf(c) == (CHOOSE i \in 1..10 : DigitChars[i] = c) - 1

RECURSIVE DigitsValue(_)
DigitsValue(s) ==
    IF s = <<>> THEN 0
    ELSE 10 * DigitsValue(SubSeq(s, 1, Len(s) - 1)) + DigitOf(s[Len(s)])

\* int(text): surrounding whitespace, an optional sign, then decimal digits;
\* Null stands for the ValueError.
ParseInt(s) ==
    LET t == Strip(s)
        signed == t # <<>> /\ Head(t) \in {"+", "-"}
        body == IF signed THEN Tail(t) ELSE t
    IN  IF body = <<>> \/ \E i \in 1..Len(body) : ~IsDigit(body[i]) THEN Null
        ELSE IF signed /\ Head(t) = "-" THEN Some(0 - DigitsValue(body))
        ELSE Some(DigitsValue(body))

\* int(request.args.get(name, default))
ArgInt(arg, default) == IF IsNull(arg) THEN Some(default) ELSE ParseInt(Val(arg))

\* ------------------------------------------------------------ the tables

Datasets == {"d1"}

RuleNames == {"r1"}

Scores == {Some(n) : n \in 0..MaxScore}

ExceptionTexts == {Null, Some(""), Some("x"), Some("xx")}

\* Runs of tomorrow, yesterday and MaxAge days ago.
Ages == {-1, 1, MaxAge}

RuleOutputRows(scores, exceptions, ages) ==
    [dataset : Datasets, rule_nm : RuleNames, score : scores,
     exception : exceptions, age : ages]

OwlRuleRows == [dataset : Datasets, rule_nm : RuleNames, dim_id : {Some(1)}]

BusinessUnitToDatasetRows == [id : {1}, dataset : Datasets]

\* The subsets of S of at most n elements.
RECURSIVE UpTo(_, _)
UpTo(S, n) ==
    IF n = 0 THEN {{}}
    ELSE LET P == UpTo(S, n - 1) IN P \cup {T \cup {x} : T \in P, x \in S}

HealthTables(rows) ==
    [rule_output : UpTo(rows, MaxRows),
     owl_rule : SUBSET OwlRuleRows,
     owl_catalog : SUBSET Datasets,
     business_unit_to_dataset : SUBSET BusinessUnitToDatasetRows,
     opt_owl : {{}},
     rule_breaks : {{}}]

\* ------------------------------------------------------------- responses

NoArgs == [dataset |-> Null, page |-> Null, pageSize |-> Null, days |-> Null]

InitLocals ==
    [days |-> Null, count |-> Null, idx |-> 0, exc |-> Null, timed |-> {}]

InitTasks == [q \in QueryNameSet |-> "unsubmitted"]

Response(status, body) == Some([status |-> status, body |-> body])

\* jsonify({"error": str(e), ...}), 500: the envelope names the exception.
ErrorEnvelope(e) == Response(500, [error |-> e])

Status == IF IsNull(response) THEN 0 ELSE Val(response).status

Body == Val(response).body

Raise(e) == locals' = [locals EXCEPT !.exc = Some(e)] /\ pc' = "except"

\* ------------------------------------------------------ get_db_connection

\* psycopg2.connect and the SELECT 1 round trip: a connection, or a raise.
ConnectOk(next) ==
    /\ conn' = "open"
    /\ pc' = next
    /\ UNCHANGED locals

ConnectRaises ==
    /\ Raise("OperationalError")
    /\ UNCHANGED conn

\* ---------------------------------------------------------- /api/datasets

DatasetsStart ==
    /\ request.endpoint = "/api/datasets" /\ pc = "start"
    /\ LET days == ArgInt(request.args.days, 1)
       IN  IF IsNull(days) THEN Raise("ValueError")
           ELSE locals' = [locals EXCEPT !.days = days] /\ pc' = "connect"
    /\ UNCHANGED <<request, db, conn, tasks, results, response>>

DatasetsConnect ==
    /\ request.endpoint = "/api/datasets" /\ pc = "connect"
    /\ ConnectOk("query") \/ ConnectRaises
    /\ UNCHANGED <<request, db, tasks, results, response>>

\* pd.read_sql, df.to_dict('records'), conn.close(), jsonify(result); the
\* records themselves are not modelled.
DatasetsQuery ==
    /\ request.endpoint = "/api/datasets" /\ pc = "query"
    /\ \/ /\ conn' = "closed"
          /\ response' = Response(200, [records |-> "j"])
          /\ pc' = "done"
          /\ UNCHANGED locals
       \/ /\ Raise("DatabaseError")
          /\ UNCHANGED <<conn, response>>
    /\ UNCHANGED <<request, db, tasks, results>>

\* except Exception as e: return jsonify({"error": str(e)}), 500
DatasetsExcept ==
    /\ request.endpoint = "/api/datasets" /\ pc = "except"
    /\ response' = ErrorEnvelope(Val(locals.exc))
    /\ pc' = "done"
    /\ UNCHANGED <<request, db, conn, locals, tasks, results>>

\* ------------------------------------------------------------ /api/schema

SchemaConnect ==
    /\ request.endpoint = "/api/schema" /\ pc = "start"
    /\ ConnectOk("query") \/ ConnectRaises
    /\ UNCHANGED <<request, db, tasks, results, response>>

\* The three information_schema queries and the jsonify of their rows.
SchemaQuery ==
    /\ request.endpoint = "/api/schema" /\ pc = "query"
    /\ \/ /\ response' = Response(200, [tables |-> "columns"])
          /\ pc' = "finally"
          /\ UNCHANGED locals
       \/ /\ Raise("OperationalError")
          /\ UNCHANGED response
    /\ UNCHANGED <<request, db, conn, tasks, results>>

SchemaExcept ==
    /\ request.endpoint = "/api/schema" /\ pc = "except"
    /\ response' = ErrorEnvelope(Val(locals.exc))
    /\ pc' = "finally"
    /\ UNCHANGED <<request, db, conn, locals, tasks, results>>

\* finally: if 'conn' in locals(): conn.close()
SchemaFinally ==
    /\ request.endpoint = "/api/schema" /\ pc = "finally"
    /\ conn' = IF conn = "open" THEN "closed" ELSE conn
    /\ pc' = "done"
    /\ UNCHANGED <<request, db, locals, tasks, results, response>>

\* -------------------------------------------------- /api/dashboard/health

Health == request.endpoint = "/api/dashboard/health"

HealthStart ==
    /\ Health /\ pc = "start"
    /\ LET days == ArgInt(request.args.days, 2)
       IN  IF IsNull(days) THEN Raise("ValueError")
           ELSE locals' = [locals EXCEPT !.days = days] /\ pc' = "connect"
    /\ UNCHANGED <<request, db, conn, tasks, results, response>>

HealthConnect ==
    /\ Health /\ pc = "connect"
    /\ ConnectOk("verify") \/ ConnectRaises
    /\ UNCHANGED <<request, db, tasks, results, response>>

NoDataBody ==
    [error |-> "No data found", globalHealth |-> {}, timeSeries |-> {},
     dimensions |-> {}, businessUnits |-> {}, queryTimings |-> {}]

HealthVerify ==
    /\ Health /\ pc = "verify"
    /\ \/ LET count == VerifyCount(db, Val(locals.days))
          IN  /\ locals' = [locals EXCEPT !.count = Some(count), !.idx = 1]
              /\ IF NoData(count)
                    THEN response' = Response(404, NoDataBody) /\ pc' = "finally"
                    ELSE pc' = "submit" /\ UNCHANGED response
       \/ /\ Raise("OperationalError")
          /\ UNCHANGED response
    /\ UNCHANGED <<request, db, conn, tasks, results>>

\* futures_dict[query_name] = executor.submit(execute_query, conn, query, query_name)
HealthSubmit ==
    /\ Health /\ pc = "submit"
    /\ tasks' = [tasks EXCEPT ![QueryNames[locals.idx]] = "pending"]
    /\ IF locals.idx = Len(QueryNames)
          THEN locals' = [locals EXCEPT !.idx = 1] /\ pc' = "collect"
          ELSE locals' = [locals EXCEPT !.idx = @ + 1] /\ pc' = "submit"
    /\ UNCHANGED <<request, db, conn, results, response>>

MaxWorkers == 4

\* A worker thread of the pool takes the work item off the queue.
WorkerStart(q) ==
    /\ tasks[q] = "pending"
    /\ Cardinality({r \in QueryNameSet : tasks[r] = "running"}) < MaxWorkers
    /\ tasks' = [tasks EXCEPT ![q] = "running"]
    /\ UNCHANGED <<request, db, pc, conn, locals, results, response>>

\* execute_query returns (query_name, result, query_time) ...
WorkerReturn(q) ==
    /\ tasks[q] = "running"
    /\ tasks' = [tasks EXCEPT ![q] = "returned"]
    /\ UNCHANGED <<request, db, pc, conn, locals, results, response>>

\* ... or pd.read_sql raises in it.
WorkerRaise(q) ==
    /\ tasks[q] = "running"
    /\ tasks' = [tasks EXCEPT ![q] = "raised"]
    /\ UNCHANGED <<request, db, pc, conn, locals, results, response>>

\* The loop over futures_dict moves on, or is over.
CollectNext ==
    IF locals.idx = Len(QueryNames) THEN "join" ELSE "collect"

\* except Exception: results[query_name] = an empty frame, and carry on.
CollectRaisedFallback(q) ==
    /\ results' = results @@ (q :> {})
    /\ locals' = [locals EXCEPT !.idx = @ + 1]
    /\ pc' = CollectNext

\* except Exception as e: print(...); raise
CollectRaised(q) ==
    /\ locals' = [locals EXCEPT !.exc = Some("DatabaseError")]
    /\ pc' = "join"
    /\ UNCHANGED results

\* query_name, result, timing = future.result(): blocks until that future is done.
HealthCollect ==
    /\ Health /\ pc = "collect"
    /\ LET q == QueryNames[locals.idx]
       IN  \/ /\ tasks[q] = "returned"
              /\ results' = results @@ (q :> Query(q, db, Val(locals.days)))
              /\ locals' = [locals EXCEPT !.idx = @ + 1, !.timed = @ \cup {q}]
              /\ pc' = CollectNext
           \/ /\ tasks[q] = "raised"
              /\ CollectRaised(q)
    /\ UNCHANGED <<request, db, conn, tasks, response>>

\* Leaving the with block: executor.shutdown(wait=True).
JoinReadyNoWait == TRUE

JoinReady == \A q \in QueryNameSet : tasks[q] \in {"returned", "raised"}

HealthJoin ==
    /\ Health /\ pc = "join"
    /\ JoinReady
    /\ pc' = IF IsNull(locals.exc) THEN "compose" ELSE "except"
    /\ UNCHANGED <<request, db, conn, locals, tasks, results, response>>

\* results['timeSeries'], results['globalHealth'], ...: a missing key raises.
HealthCompose ==
    /\ Health /\ pc = "compose"
    /\ IF QueryNameSet \subseteq DOMAIN results
          THEN /\ response' = Response(200,
                      [k \in DOMAIN results |-> results[k]]
                          @@ ("queryTimings" :> locals.timed))
               /\ pc' = "finally"
               /\ UNCHANGED locals
          ELSE Raise("KeyError") /\ UNCHANGED response
    /\ UNCHANGED <<request, db, conn, tasks, results>>

HealthExcept ==
    /\ Health /\ pc = "except"
    /\ response' = ErrorEnvelope(Val(locals.exc))
    /\ pc' = "finally"
    /\ UNCHANGED <<request, db, conn, locals, tasks, results>>

HealthFinally ==
    /\ Health /\ pc = "finally"
    /\ conn' = IF conn = "open" THEN "closed" ELSE conn
    /\ pc' = "done"
    /\ UNCHANGED <<request, db, locals, tasks, results, response>>

\* ------------------------------------------------------------------- Spec

DaysArgs == {Null, Some(<<"1">>), Some(<<"x">>)}

\* Breaking runs of today and of MaxAge days ago, with and without an
\* exception text.
SpecRows == RuleOutputRows({Some(1)}, {Null, Some("x")}, {0, MaxAge})

Init ==
    /\ request \in [endpoint : {"/api/datasets", "/api/dashboard/health", "/api/schema"},
                     args : {[NoArgs EXCEPT !.days = d] : d \in DaysArgs}]
    /\ db \in HealthTables(SpecRows)
    /\ pc = "start"
    /\ conn = "none"
    /\ locals = InitLocals
    /\ tasks = InitTasks
    /\ results = << >>
    /\ response = Null

Next ==
    \/ DatasetsStart \/ DatasetsConnect \/ DatasetsQuery \/ DatasetsExcept
    \/ SchemaConnect \/ SchemaQuery \/ SchemaExcept \/ SchemaFinally
    \/ HealthStart \/ HealthConnect \/ HealthVerify \/ HealthSubmit
    \/ \E q \in QueryNameSet : WorkerStart(q) \/ WorkerReturn(q) \/ WorkerRaise(q)
    \/ HealthCollect \/ HealthJoin \/ HealthCompose \/ HealthExcept
    \/ HealthFinally

Spec == Init /\ [][Next]_vars

\* ---------------------------------------------------------- SpecAggregate
\* The four queries run one after the other on an open connection, over a
\* wider choice of tables than Spec draws from.

AggregateRows == RuleOutputRows(Scores, ExceptionTexts, Ages)

InitAggregate ==
    /\ request \in [endpoint : {"/api/dashboard/health"},
                     args : {[NoArgs EXCEPT !.days = d] :
                               d \in {Null, Some(<<"1">>)}}]
    /\ db \in HealthTables(AggregateRows)
    /\ pc = "aggregate"
    /\ conn = "open"
    /\ locals = [InitLocals EXCEPT !.days = ArgInt(request.args.days, 2), !.idx = 1]
    /\ tasks = InitTasks
    /\ results = << >>
    /\ response = Null

\* result = pd.read_sql(query, conn)
ExecuteQuery(q) ==
    /\ pc = "aggregate"
    /\ locals.idx <= Len(QueryNames) /\ q = QueryNames[locals.idx]
    /\ results' = results @@ (q :> Query(q, db, Val(locals.days)))
    /\ locals' = [locals EXCEPT !.idx = @ + 1, !.timed = @ \cup {q}]
    /\ UNCHANGED <<request, db, pc, conn, tasks, response>>

NextAggregate == \E q \in QueryNameSet : ExecuteQuery(q)

SpecAggregate == InitAggregate /\ [][NextAggregate]_vars

\* ----------------------------------------------------- /api/datasets/parse

Parse == request.endpoint = "/api/datasets/parse"

Letters == {"A"}

LinkChars == Letters \cup {" ", "~", "|"}

Delimiter == <<"~", "|">>

DelimiterAt(s, i) ==
    i + Len(Delimiter) - 1 <= Len(s) /\ SubSeq(s, i, i + Len(Delimiter) - 1) = Delimiter

\* The pieces of a non-empty text between the occurrences of the delimiter,
\* found from the left.
RECURSIVE SplitOnDelimiter(_)
SplitOnDelimiter(s) ==
    IF \E i \in 1..Len(s) : DelimiterAt(s, i)
      THEN LET i == CHOOSE i \in 1..Len(s) :
                      DelimiterAt(s, i) /\ \A j \in 1..(i - 1) : ~DelimiterAt(s, j)
           IN  <<SubSeq(s, 1, i - 1)>>
                 \o SplitOnDelimiter(SubSeq(s, i + Len(Delimiter), Len(s)))
      ELSE <<s>>

\* string_to_array(linkid, '~|'): NULL of NULL, the empty array of the empty
\* text.
StringToArray(linkid) ==
    IF IsNull(linkid) THEN Null
    ELSE IF Val(linkid) = <<>> THEN Some(<<>>)
    ELSE Some(SplitOnDelimiter(Val(linkid)))

IsBlank(col) == Strip(col) = <<>>

\* if h: the test of an untrimmed token.
KeepHeaderIfNotEmpty(h) == h # <<>>

\* if h.strip()
KeepHeader(h) == ~IsBlank(h)

\* [h for h in headers if h.strip()]
Columns(headers) == SelectSeq(headers, KeepHeader)

\* f"d.value[{i+1}] AS {col.strip()}" for i, col in enumerate(headers) if col.strip()
RECURSIVE ColumnExpressionsFrom(_, _)
ColumnExpressionsFrom(headers, i) ==
    IF i > Len(headers) THEN <<>>
    ELSE (IF IsBlank(headers[i]) THEN <<>>
          ELSE <<[element |-> i, alias |-> Strip(headers[i])]>>)
         \o ColumnExpressionsFrom(headers, i + 1)

\* The projection numbered over the kept headers only.
ColumnExpressionsOfColumns(headers) ==
    [k \in 1..Len(Columns(headers)) |->
        [element |-> k, alias |-> Strip(Columns(headers)[k])]]

ColumnExpressions(headers) == ColumnExpressionsFrom(headers, 1)

Max(a, b) == IF a >= b THEN a ELSE b

Min(a, b) == IF a <= b THEN a ELSE b

MaxPageSize == 1000

DefaultPageSize == 100

\* The page size with the lower limit only.
ClampPageSizeBelow(n) == Max(1, n)

\* max(1, min(1000, int(...)))
ClampPageSize(n) == Max(1, Min(MaxPageSize, n))

\* The number of full pages.
TotalPagesFull(total_count, page_size) == total_count \div page_size

\* (total_count + page_size - 1) // page_size
TotalPages(total_count, page_size) == (total_count + page_size - 1) \div page_size

\* The rows of rule_breaks of the dataset with run_id >= date_threshold.
BreakCount(d, dataset, days) ==
    Cardinality({b \in d.rule_breaks : b.dataset = dataset /\ b.age <= days})

OptOwlOf(d, dataset) == {o \in d.opt_owl : o.dataset = dataset}

InitParseLocals ==
    [days |-> Null, count |-> Null, idx |-> 0, exc |-> Null, timed |-> {},
     page |-> Null, page_size |-> Null, offset |-> Null, total_count |-> Null,
     headers |-> Null, column_expressions |-> Null]

\* The parameters are read and validated.
ParseStart ==
    /\ Parse /\ pc = "start"
    /\ IF IsNull(request.args.dataset) \/ request.args.dataset = Some("")
         THEN /\ response' = Response(400, [error |-> "Dataset parameter is required"])
              /\ pc' = "done"
              /\ UNCHANGED locals
         ELSE LET page == ArgInt(request.args.page, 1)
                  page_size == ArgInt(request.args.pageSize, DefaultPageSize)
                  days == ArgInt(request.args.days, 1)
              IN  IF IsNull(page) \/ IsNull(page_size) \/ IsNull(days)
                    THEN /\ response' = Response(400,
                                [error |-> "Invalid pagination parameters"])
                         /\ pc' = "done"
                         /\ UNCHANGED locals
                    ELSE /\ locals' =
                              [locals EXCEPT
                                 !.page = Some(Max(1, Val(page))),
                                 !.page_size = Some(ClampPageSize(Val(page_size))),
                                 !.days = Some(Max(1, Val(days))),
                                 !.offset = Some((Max(1, Val(page)) - 1)
                                                   * ClampPageSize(Val(page_size)))]
                         /\ pc' = "connect"
                         /\ UNCHANGED response
    /\ UNCHANGED <<request, db, conn, tasks, results>>

ParseConnect ==
    /\ Parse /\ pc = "connect"
    /\ ConnectOk("verify") \/ ConnectRaises
    /\ UNCHANGED <<request, db, tasks, results, response>>

\* A raise inside the inner try: the finally clause runs, then the handler of
\* the outer try.
RaiseInner(e) == locals' = [locals EXCEPT !.exc = Some(e)] /\ pc' = "finally"

\* SELECT COUNT(*) FROM opt_owl WHERE dataset = %s
ParseVerify ==
    /\ Parse /\ pc = "verify"
    /\ \/ IF OptOwlOf(db, Val(request.args.dataset)) = {}
            THEN /\ response' = Response(404, [error |-> "Dataset not found"])
                 /\ pc' = "finally"
                 /\ UNCHANGED locals
            ELSE pc' = "count" /\ UNCHANGED <<locals, response>>
       \/ RaiseInner("OperationalError") /\ UNCHANGED response
    /\ UNCHANGED <<request, db, conn, tasks, results>>

\* SELECT COUNT(*) FROM rule_breaks WHERE dataset = %s AND run_id >= %s
ParseCount ==
    /\ Parse /\ pc = "count"
    /\ \/ /\ locals' = [locals EXCEPT !.total_count =
                 Some(BreakCount(db, Val(request.args.dataset), Val(locals.days)))]
          /\ pc' = "headers"
       \/ RaiseInner("OperationalError")
    /\ UNCHANGED <<request, db, conn, tasks, results, response>>

\* SELECT string_to_array(linkid, '~|') AS header FROM opt_owl
\* WHERE dataset = %s LIMIT 1; headers = headers_df.iloc[0]['header']
ParseHeaders ==
    /\ Parse /\ pc = "headers"
    /\ \/ IF OptOwlOf(db, Val(request.args.dataset)) = {}
            THEN /\ response' = Response(404, [error |-> "No headers found"])
                 /\ pc' = "finally"
                 /\ UNCHANGED locals
            ELSE \E o \in OptOwlOf(db, Val(request.args.dataset)) :
                   /\ locals' = [locals EXCEPT !.headers = Some(StringToArray(o.linkid))]
                   /\ pc' = "query"
                   /\ UNCHANGED response
       \/ RaiseInner("DatabaseError") /\ UNCHANGED response
    /\ UNCHANGED <<request, db, conn, tasks, results>>

\* An alias is spliced into the SQL unquoted: it has to be an identifier.
IsIdentifier(alias) ==
    alias # <<>> /\ \A k \in 1..Len(alias) : alias[k] \in Letters

\* SELECT dataset, run_id, rule_nm, {columns_sql} FROM values d: a syntax
\* error when columns_sql is empty (the list ends in a comma) or an alias is
\* no identifier.
ValidSelectList(exprs) ==
    exprs # <<>> /\ \A i \in 1..Len(exprs) : IsIdentifier(exprs[i].alias)

\* The projection is built and the parse query run.  enumerate(None) raises a
\* TypeError before any projection exists; otherwise the projection is built
\* first and the query then succeeds or raises.
ParseQuery ==
    /\ Parse /\ pc = "query"
    /\ LET headers == Val(locals.headers)
       IN  IF IsNull(headers) THEN RaiseInner("TypeError")
           ELSE LET built == [locals EXCEPT !.column_expressions =
                                 Some(ColumnExpressions(Val(headers)))]
                IN  IF ~ValidSelectList(ColumnExpressions(Val(headers)))
                      THEN /\ locals' = [built EXCEPT !.exc =
                                           Some("DatabaseError: syntax error")]
                           /\ pc' = "finally"
                    ELSE \/ /\ locals' = built
                            /\ pc' = "respond"
                         \/ /\ locals' = [built EXCEPT !.exc = Some("DatabaseError")]
                            /\ pc' = "finally"
    /\ UNCHANGED <<request, db, conn, tasks, results, response>>

ParseRespond ==
    /\ Parse /\ pc = "respond"
    /\ response' = Response(200,
          [columns |-> Columns(Val(Val(locals.headers))),
           rows |-> Max(0, Min(Val(locals.page_size),
                               Val(locals.total_count) - Val(locals.offset))),
           pagination |->
             [page |-> Val(locals.page),
              pageSize |-> Val(locals.page_size),
              totalCount |-> Val(locals.total_count),
              totalPages |-> TotalPages(Val(locals.total_count),
                                        Val(locals.page_size))],
           parseQuery |-> Val(locals.column_expressions),
           parameters |-> [dataset |-> Val(request.args.dataset),
                           page_size |-> Val(locals.page_size),
                           offset |-> Val(locals.offset)]])
    /\ pc' = "finally"
    /\ UNCHANGED <<request, db, conn, locals, tasks, results>>

\* finally: conn.close()
ParseFinally ==
    /\ Parse /\ pc = "finally"
    /\ conn' = "closed"
    /\ pc' = IF IsNull(locals.exc) THEN "done" ELSE "except"
    /\ UNCHANGED <<request, db, locals, tasks, results, response>>

ParseExcept ==
    /\ Parse /\ pc = "except"
    /\ response' = ErrorEnvelope(Val(locals.exc))
    /\ pc' = "done"
    /\ UNCHANGED <<request, db, conn, locals, tasks, results>>

\* -------------------------------------------------------------- SpecParse

RECURSIVE Texts(_)
Texts(n) ==
    IF n = 0 THEN {<<>>}
    ELSE LET T == Texts(n - 1) IN T \cup {Append(t, c) : t \in T, c \in LinkChars}

LinkIds == {Null} \cup {Some(t) : t \in Texts(MaxLinkLen)}

MaxBreaks == 4

\* A row count just above the default page size.
ManyBreaks == 101

ParseTables(linkids, breaks) ==
    [rule_output : {{}}, owl_rule : {{}}, owl_catalog : {{}},
     business_unit_to_dataset : {{}},
     opt_owl : {{}} \cup {{[dataset |-> "d1", linkid |-> l]} : l \in linkids},
     rule_breaks : {[dataset : {"d1"}, age : {0}, n : 1..k] : k \in breaks}]

\* The pageSize arguments: absent, inside, below, on and above the limits,
\* and one that is no integer.
PageSizeArgs ==
    {Null, Some(<<"1">>), Some(<<"2">>), Some(<<"3">>), Some(<<"0">>),
     Some(<<"-", "3">>), Some(<<"1", "0", "0", "0">>), Some(<<"1", "0", "0", "1">>),
     Some(<<"5", "0", "0", "0">>), Some(<<"1", ".", "5">>)}

ParseArgs(datasets, pages, sizes, days) ==
    [dataset : datasets, page : pages, pageSize : sizes, days : days]

\* Every stored header string under a plain request, and a few header
\* strings under every request.
InitParse ==
    /\ \/ /\ request \in [endpoint : {"/api/datasets/parse"},
                           args : ParseArgs({Some("d1")}, {Null}, {Null}, {Null})]
          /\ db \in ParseTables(LinkIds, {MaxBreaks})
       \/ /\ request \in [endpoint : {"/api/datasets/parse"},
                           args : ParseArgs({Null, Some(""), Some("d1"), Some("d2")},
                                            {Null, Some(<<"2">>), Some(<<"x">>)},
                                            PageSizeArgs,
                                            {Null, Some(<<"x">>)})]
          /\ db \in ParseTables({Null, Some(<<"A", "~", "|", "A", "A">>)},
                                0..MaxBreaks \cup {ManyBreaks})
    /\ pc = "start"
    /\ conn = "none"
    /\ locals = InitParseLocals
    /\ tasks = InitTasks
    /\ results = << >>
    /\ response = Null

NextParse ==
    \/ ParseStart \/ ParseConnect \/ ParseVerify \/ ParseCount \/ ParseHeaders
    \/ ParseQuery \/ ParseRespond \/ ParseFinally \/ ParseExcept

SpecParse == InitParse /\ [][NextParse]_vars

\* ================================================================= claims

Days == Val(locals.days)

Finished(q) == tasks[q] \in {"returned", "raised"}

\* C1: once the four aggregate queries are dispatched the outcome is all or
\* nothing: a success body carries all four aggregate keys and is produced only
\* when all four queries returned, and a request in which any query raised
\* ends with the 500 envelope.
C1_AllOrNothing ==
    Health =>
      /\ Status = 200 =>
            /\ QueryNameSet \subseteq DOMAIN Body
            /\ \A q \in QueryNameSet : tasks[q] = "returned"
      /\ (pc = "done" /\ \E q \in QueryNameSet : tasks[q] = "raised") =>
            Status = 500

\* A later query raised after the first result had been collected.
C1_Witness ==
    /\ Health /\ pc = "done" /\ Status = 500
    /\ "globalHealth" \in DOMAIN results
    /\ \E q \in QueryNameSet : tasks[q] = "raised"

\* C2: the pool is a join-all barrier without cancellation: after the dispatch,
\* the response is composed and the connection closed only when every one of
\* the four queries has returned or raised.
C2_JoinAll ==
    (/\ Health
     /\ \E q \in QueryNameSet : tasks[q] # "unsubmitted"
     /\ \/ pc \in {"compose", "except", "finally", "done"}
        \/ ~IsNull(response)
        \/ conn = "closed")
    => \A q \in QueryNameSet : Finished(q)

\* The first future raised, the others were never collected, and all of them
\* have run to their end before the error response is composed.
C2_Witness ==
    /\ Health /\ pc = "except" /\ results = << >>
    /\ tasks["globalHealth"] = "raised"
    /\ \A q \in QueryNameSet \ {"globalHealth"} : tasks[q] = "returned"

\* C3: no request ends with the connection it opened still open.
C3_ConnectionClosed == pc = "done" => conn # "open"

\* C7, as claimed: with no health fact (a row of the joined relation f) in the
\* window, the answer is the 404 with empty aggregates and nothing is dispatched.
C7_NoFactsGives404 ==
    (Health /\ pc = "done" /\ ~IsNull(locals.count) /\ Facts(db, Days) = {})
    => /\ Status = 404
       /\ \A q \in QueryNameSet : Body[q] = {} /\ tasks[q] = "unsubmitted"

\* C7, amended: with no rule_output row in the window, the answer is the 404
\* with empty aggregates and nothing is dispatched.
C7_NoRowsGives404 ==
    (/\ Health /\ pc = "done" /\ ~IsNull(locals.count)
     /\ \A a \in db.rule_output : a.age > Days \/ a.age < -1)
    => /\ Status = 404
       /\ \A q \in QueryNameSet : Body[q] = {} /\ tasks[q] = "unsubmitted"

\* rule_output has rows, all of them older than the window.
C7_Witness ==
    /\ Health /\ pc = "done" /\ Status = 404
    /\ db.rule_output # {}
    /\ \A a \in db.rule_output : a.age > Days

\* C9: a numeric query parameter that does not parse as an integer is answered
\* with 400.
C9_BadNumberIs400 ==
    (/\ pc = "done"
     /\ request.endpoint \in {"/api/datasets", "/api/dashboard/health"}
     /\ ~IsNull(request.args.days)
     /\ IsNull(ParseInt(Val(request.args.days))))
    => Status = 400

\* The classification as the specification words it, on a numeric score s and
\* a nullable text x.
StatedStatus(s, x) ==
    IF s = 0 /\ (IsNull(x) \/ Val(x) = "") THEN Some("PASSING")
    ELSE IF ~IsNull(x) /\ Len(Val(x)) > 1 THEN Some("EXCEPTION")
    ELSE IF s > 0 THEN Some("BREAKING")
    ELSE Null

StatedStatusOf(f) == StatedStatus(Val(f.src[1].score), f.src[1].exception)

\* C4: every fact has the status of the first matching rule among PASSING
\* (score 0, no exception text), EXCEPTION (text longer than one character),
\* BREAKING (score > 0); a fact with score > 0 and a longer text is EXCEPTION;
\* and the time series counts the facts by that status.
C4_Classification ==
    /\ \A f \in Facts(db, Days) :
          /\ f.pass_fail_exception = StatedStatusOf(f)
          /\ (Val(f.rule_point) > 0 /\ ~IsNull(f.src[1].exception)
                 /\ Len(Val(f.src[1].exception)) > 1)
               => f.pass_fail_exception = Some("EXCEPTION")
    /\ "timeSeries" \in DOMAIN results =>
          \A r \in results["timeSeries"] :
              r.cnt = Cardinality({f \in FilteredFacts(db, Days) :
                                     /\ StatedStatusOf(f) = r.pass_fail_exception
                                     /\ f.run_age = r.run_id})

C4_Witness ==
    /\ "timeSeries" \in DOMAIN results
    /\ \E r \in results["timeSeries"] : r.pass_fail_exception = Some("EXCEPTION")
    /\ \E f \in FilteredFacts(db, Days) :
          /\ Val(f.rule_point) > 0
          /\ f.src[1].exception = Some("xx")

HasOneCharException(f) ==
    ~IsNull(f.src[1].exception) /\ Len(Val(f.src[1].exception)) = 1

\* C5, as claimed: a fact with score > 0 and an exception text of exactly one
\* character has no status (NULL).
C5_GapAsClaimed ==
    "timeSeries" \in DOMAIN results =>
      \A f \in FilteredFacts(db, Days) :
          (Val(f.rule_point) > 0 /\ HasOneCharException(f))
            => IsNull(f.pass_fail_exception)

IsGapFact(f) == Val(f.rule_point) = 0 /\ HasOneCharException(f)

\* C5, amended: a fact with score > 0 and an exception text of exactly one
\* character is BREAKING; the fact without a status (NULL) is the one with
\* score 0 and an exception text of exactly one character, and no row of
\* globalHealth counts it.
C5_UnclassifiedGap ==
    /\ \A f \in Facts(db, Days) :
          /\ IsGapFact(f) => IsNull(f.pass_fail_exception)
          /\ (Val(f.rule_point) > 0 /\ HasOneCharException(f))
               => f.pass_fail_exception = Some("BREAKING")
    /\ "globalHealth" \in DOMAIN results =>
          \A r \in results["globalHealth"] :
              r.cnt = Cardinality({f \in FilteredFacts(db, Days) :
                                     /\ ~IsGapFact(f)
                                     /\ StatedStatusOf(f) = Some(r.pass_fail_exception)})

C5_Witness ==
    /\ "globalHealth" \in DOMAIN results
    /\ \E f \in FilteredFacts(db, Days) : IsGapFact(f)
    /\ \E f \in FilteredFacts(db, Days) :
          Val(f.rule_point) > 0 /\ HasOneCharException(f)

FracAdd(a, b) == [num |-> a.num * b.den + b.num * a.den, den |-> a.den * b.den]

RECURSIVE RatioSum(_)
RatioSum(rows) ==
    IF rows = {} THEN [num |-> 0, den |-> 1]
    ELSE LET r == CHOOSE r \in rows : TRUE
         IN  FracAdd(r.ratio, RatioSum(rows \ {r}))

\* C6: globalHealth has exactly three rows, one for each of PASSING, BREAKING
\* and EXCEPTION; a status without facts has cnt 0 and ratio 0; and when some
\* status has facts the ratios sum to 1.
C6_GlobalHealthRows ==
    "globalHealth" \in DOMAIN results =>
      LET G == results["globalHealth"]
      IN  /\ Cardinality(G) = 3
          /\ {r.pass_fail_exception : r \in G} = AllStatuses
          /\ \A r \in G : r.cnt = 0 => r.ratio.num = 0
          /\ (\E r \in G : r.cnt > 0) => RatioSum(G).num = RatioSum(G).den

StoredLinkIds == {o.linkid : o \in OptOwlOf(db, Val(request.args.dataset))}

\* The header row of the dataset was read.
HeadersRead == Parse /\ ~IsNull(request.args.dataset) /\ ~IsNull(locals.headers)

\* C8: an existing dataset whose header row yields no column name (the stored
\* header string is NULL or empty, or every token is blank) is answered with
\* the 404 "no headers" error.
C8_NoHeadersIs404 ==
    (/\ HeadersRead /\ pc = "done"
     /\ LET headers == Val(locals.headers)
        IN  \/ IsNull(headers)
            \/ \A i \in 1..Len(Val(headers)) :
                  \A k \in 1..Len(Val(headers)[i]) : Val(headers)[i][k] = " ")
    => Status = 404

RECURSIVE JoinTokens(_)
JoinTokens(toks) ==
    IF Len(toks) = 1 THEN toks[1]
    ELSE toks[1] \o Delimiter \o JoinTokens(Tail(toks))

\* toks are the tokens of the text s: s is toks joined by the delimiter, and
\* no token holds a delimiter.
IsSplitOf(toks, s) ==
    /\ IF s = <<>> THEN toks = <<>> ELSE toks # <<>> /\ JoinTokens(toks) = s
    /\ \A i \in 1..Len(toks) : \A k \in 1..Len(toks[i]) : ~DelimiterAt(toks[i], k)

RECURSIVE Remove(_, _)
Remove(toks, dropped) ==
    IF toks = <<>> THEN <<>>
    ELSE (IF Head(toks) \in dropped THEN <<>> ELSE <<Head(toks)>>)
         \o Remove(Tail(toks), dropped)

Spaces(n) == [i \in 1..n |-> " "]

\* C10, as claimed: columns is the stored header string split on the
\* delimiter, with the empty tokens removed and the order kept.
C10_ColumnsDropEmpty ==
    (HeadersRead /\ Status = 200) =>
      LET toks == Val(Val(locals.headers))
      IN  /\ \E l \in StoredLinkIds : ~IsNull(l) /\ IsSplitOf(toks, Val(l))
          /\ Body.columns = Remove(toks, {<<>>})

\* C10, amended: columns is the stored header string split on the delimiter,
\* with the tokens that are empty or hold only whitespace removed and the order
\* kept.
C10_ColumnsDropBlank ==
    (HeadersRead /\ Status = 200) =>
      LET toks == Val(Val(locals.headers))
      IN  /\ \E l \in StoredLinkIds : ~IsNull(l) /\ IsSplitOf(toks, Val(l))
          /\ Body.columns = Remove(toks, {Spaces(n) : n \in 0..MaxLinkLen})

\* The stored string A~|~|A is reported as [A, A].
C10_Witness ==
    /\ HeadersRead /\ Status = 200
    /\ StoredLinkIds = {Some(<<"A", "~", "|", "~", "|", "A">>)}
    /\ Body.columns = << <<"A">>, <<"A">> >>

\* The projection of the request was built.
ProjectionBuilt == HeadersRead /\ ~IsNull(locals.column_expressions)

\* alias is the token with its leading and trailing whitespace removed.
IsTrimOf(alias, token) ==
    /\ alias # <<>> => alias[1] # " " /\ alias[Len(alias)] # " "
    /\ \E a \in 0..Len(token) : \E b \in 0..Len(token) :
          token = Spaces(a) \o alias \o Spaces(b)

\* C11: the projection holds, in header order, exactly one expression for
\* each position of the header list whose token is not blank; the expression
\* of the 0-based position i extracts element i + 1 of the value array and is
\* aliased to the trimmed token.  Blank positions give no expression and do
\* not shift the element of later positions.
C11_ProjectionByPosition ==
    ProjectionBuilt =>
      LET headers == Val(Val(locals.headers))
          exprs   == Val(locals.column_expressions)
          kept    == {i \in 0..(Len(headers) - 1) :
                         headers[i + 1] \notin {Spaces(n) : n \in 0..MaxLinkLen}}
      IN  /\ \A i \in kept :
                Cardinality({k \in 1..Len(exprs) : exprs[k].element = i + 1}) = 1
          /\ \A k \in 1..Len(exprs) :
                /\ exprs[k].element - 1 \in kept
                /\ IsTrimOf(exprs[k].alias, headers[exprs[k].element])
          /\ \A k \in 1..(Len(exprs) - 1) : exprs[k].element < exprs[k + 1].element

\* The header list [" ", "A "]: the blank position 0 gives no expression, and
\* position 1 is mapped to element 2 under the trimmed alias A.
C11_Witness ==
    /\ ProjectionBuilt
    /\ Val(Val(locals.headers)) = << <<" ">>, <<"A", " ">> >>
    /\ Val(locals.column_expressions) = << [element |-> 2, alias |-> <<"A">>] >>

\* The integer the request asks for as pageSize (100 when absent).
RequestedPageSize == Val(ArgInt(request.args.pageSize, 100))

\* The request is past its parameter parsing with an integer pageSize.
PageSizeTaken == Parse /\ ~IsNull(locals.page_size)

\* min(1000, max(1, n))
ClampedAsStated(n) ==
    LET lower == IF n < 1 THEN 1 ELSE n
    IN  IF lower > 1000 THEN 1000 ELSE lower

\* C12: for every integer pageSize asked for, the page size the handler works
\* with is min(1000, max(1, requested)): it is the LIMIT of the query (no more
\* rows come back, and it is the page_size parameter reported), the factor of
\* the offset (page - 1) * pageSize, and the pagination.pageSize of the answer.
\* 5000 gives 1000; 0 and negative numbers give 1.
C12_PageSizeClamped ==
    PageSizeTaken =>
      LET size == ClampedAsStated(RequestedPageSize)
      IN  /\ size \in 1..1000
          /\ Val(locals.page_size) = size
          /\ Val(locals.offset) = (Val(locals.page) - 1) * size
          /\ request.args.pageSize = Some(<<"5", "0", "0", "0">>) => size = 1000
          /\ request.args.pageSize \in {Some(<<"0">>), Some(<<"-", "3">>)} => size = 1
          /\ Status = 200 =>
                /\ Body.pagination.pageSize = size
                /\ Body.parameters.page_size = size
                /\ Body.parameters.offset = (Body.pagination.page - 1) * size
                /\ Body.rows <= size

\* pageSize=5000 on page 2 is answered with pageSize 1000 and offset 1000.
C12_Witness ==
    /\ PageSizeTaken /\ Status = 200
    /\ request.args.pageSize = Some(<<"5", "0", "0", "0">>)
    /\ request.args.page = Some(<<"2">>)
    /\ Body.pagination.pageSize = 1000
    /\ Body.parameters.offset = 1000

\* C13: for every totalCount >= 0 and effective pageSize >= 1 the answer's
\* pagination.totalPages is ceil(totalCount / pageSize): 0 when totalCount is
\* 0, and otherwise the least n with n * pageSize >= totalCount; totalCount 101
\* with pageSize 100 gives 2.
C13_TotalPagesIsCeiling ==
    (Parse /\ Status = 200) =>
      LET t == Body.pagination.totalCount
          p == Body.pagination.pageSize
          n == Body.pagination.totalPages
      IN  /\ t >= 0 /\ p >= 1 /\ n >= 0
          /\ t = 0 => n = 0
          /\ t > 0 => n * p >= t /\ (n - 1) * p < t
          /\ (t = 101 /\ p = 100) => n = 2

\* 101 rows under the default page size of 100 make 2 pages.
C13_Witness ==
    /\ Parse /\ Status = 200
    /\ Body.pagination.totalCount = 101
    /\ Body.pagination.pageSize = 100
    /\ Body.pagination.totalPages = 2

====
